---- MODULE Spec2Model ----
(***************************************************************************)
(* Model of src/Transcribe/transcribe.py: the batch transcription pipeline *)
(* (input check, ffmpeg normalisation, model load, transcribe, drain of    *)
(* the lazy segment stream with the tqdm progress bar, and the three       *)
(* exports .txt / .srt / .json) and the pure function format_srt_time.     *)
(*                                                                         *)
(* Times (float seconds in the source) are exact integers counted in ticks *)
(* of 1/TicksPerMs millisecond; strings are sequences of one-character     *)
(* strings, so that formatting, joining and line splitting are computed.   *)
(***************************************************************************)
EXTENDS Integers, Sequences, FiniteSets, TLC

\* ------------------------------------------------------------------ bounds
\* resolution of a time value: ticks per millisecond
TicksPerMs == 4
\* sub-second tick offsets tried on each side of a whole second
SubTicks == 8
\* longest segment stream the recognition model yields
MaxLen == 2
\* largest segment time, in units of SegUnit ticks, and largest reported
\* duration, in units of half a SegUnit
MaxTime == 1

\* ------------------------------------------------------------------ state
VARIABLES
    pc,             \* position of main(): which statement runs next
    input_exists,   \* input_audio.exists()
    err,            \* the exception that ended the run, "none" while running
    ffmpeg_runs,    \* number of decoder subprocesses started (run(cmd))
    model_loaded,   \* WhisperModel(...) was constructed
    transcribe_calls, \* number of model.transcribe(...) calls
    yielded,        \* segments the lazy generator has produced so far
    gen,            \* the generator: "none", "live", "exhausted" or "raised"
    info,           \* TranscriptionInfo: [language, duration]
    segs,           \* the list segs
    total_duration, \* the local total_duration
    last_t,         \* the local last_t
    pbar,           \* the increments passed to pbar.update, in order
    files,          \* files written by this run: name -> content or NoFile
    srt_lines,      \* the local srt_lines
    data,           \* the local data (the dict given to json.dumps)
    tIn,            \* argument of a format_srt_time call
    tOut            \* its result, <<>> before the call

vars == <<pc, input_exists, err, ffmpeg_runs, model_loaded, transcribe_calls,
          yielded, gen, info, segs, total_duration, last_t, pbar, files, srt_lines,
          data, tIn, tOut>>

\* ------------------------------------------------------------------ strings
NL == "\n"

Digits == <<"0", "1", "2", "3", "4", "5", "6", "7", "8", "9">>

DigitChar(d) == Digits[d + 1]

IsDigit(c) == \E d \in 0..9 : Digits[d + 1] = c

DigitVal(c) == CHOOSE d \in 0..9 : Digits[d + 1] = c

\* str(n) for n >= 0
RECURSIVE Str(_)
Str(n) == IF n < 10 THEN <<DigitChar(n)>>
          ELSE Str(n \div 10) \o <<DigitChar(n % 10)>>

\* f"{n:0wd}" for n >= 0: zero-padded to at least w digits
RECURSIVE ZeroPad(_, _)
ZeroPad(s, w) == IF Len(s) >= w THEN s ELSE ZeroPad(<<"0">> \o s, w)

FormatD(n, w) == ZeroPad(Str(n), w)

\* value of a sequence of digit characters
RECURSIVE ParseNat(_)
ParseNat(s) == IF s = <<>> THEN 0
               ELSE 10 * ParseNat(SubSeq(s, 1, Len(s) - 1)) + DigitVal(s[Len(s)])

AllDigits(s) == \A i \in 1..Len(s) : IsDigit(s[i])

\* ------------------------------------------------------------------ format_srt_time
\* round(seconds * 1000) of Python 3: nearest integer, ties to even
PyRound(ticks) ==
    LET q == ticks \div TicksPerMs
        r == ticks % TicksPerMs
    IN  IF 2 * r < TicksPerMs THEN q
        ELSE IF 2 * r > TicksPerMs THEN q + 1
        ELSE IF q % 2 = 0 THEN q ELSE q + 1

format_srt_time_NoCarry(seconds) ==
    LET q  == seconds \div TicksPerMs
        h  == q \div 3600000
        m  == (q % 3600000) \div 60000
        s  == (q % 60000) \div 1000
        ms == PyRound(seconds % (1000 * TicksPerMs))
    IN  FormatD(h, 2) \o <<":">> \o FormatD(m, 2) \o <<":">> \o FormatD(s, 2)
        \o <<",">> \o FormatD(ms, 3)

format_srt_time(seconds) ==
    LET ms0 == PyRound(seconds)
        h   == ms0 \div 3600000
        ms1 == ms0 % 3600000
        m   == ms1 \div 60000
        ms2 == ms1 % 60000
        s   == ms2 \div 1000
        ms3 == ms2 % 1000
    IN  FormatD(h, 2) \o <<":">> \o FormatD(m, 2) \o <<":">> \o FormatD(s, 2)
        \o <<",">> \o FormatD(ms3, 3)

\* ------------------------------------------------------------------ inputs of the formatting check
FmtHours == {0, 1, 99, 100}
FmtMinutes == {0, 59}
FmtSeconds == {0, 59}
FmtSub == (0..(SubTicks - 1))
          \cup ((500 * TicksPerMs - SubTicks)..(500 * TicksPerMs + SubTicks))
          \cup ((1000 * TicksPerMs - SubTicks)..(1000 * TicksPerMs - 1))

FmtInputs == { ((h * 3600 + m * 60 + s) * 1000) * TicksPerMs + q :
               h \in FmtHours, m \in FmtMinutes, s \in FmtSeconds, q \in FmtSub }

\* ------------------------------------------------------------------ more strings
Whitespace == {" ", "\t", "\n"}

\* str.strip(): drop leading and trailing whitespace
RECURSIVE LStrip(_)
LStrip(s) == IF s # <<>> /\ s[1] \in Whitespace THEN LStrip(Tail(s)) ELSE s

RECURSIVE RStrip(_)
RStrip(s) == IF s # <<>> /\ s[Len(s)] \in Whitespace
             THEN RStrip(SubSeq(s, 1, Len(s) - 1)) ELSE s

Strip(s) == RStrip(LStrip(s))

\* sep.join(parts)
RECURSIVE Join(_, _)
Join(sep, parts) ==
    IF parts = <<>> THEN <<>>
    ELSE IF Len(parts) = 1 THEN parts[1]
    ELSE parts[1] \o sep \o Join(sep, Tail(parts))

\* the truth value of a str: non-empty
Truthy(s) == s # <<>>

\* ------------------------------------------------------------------ segments
\* one unit of segment time, in ticks (1500.5 ms at TicksPerMs = 4)
SegUnit == 1500 * TicksPerMs + TicksPerMs \div 2

TextChoices == { <<>>, <<" ">>, <<" ", "a">>, <<"b", " ">> }

\* what the recognition model may yield: 0 <= start <= end
Segments == { [start |-> p[1] * SegUnit, end |-> p[2] * SegUnit, text |-> t] :
              p \in { q \in (0..MaxTime) \X (0..MaxTime) : q[1] <= q[2] },
              t \in TextChoices }

\* what the generator may yield next: the model produces its segments in
\* non-decreasing start order (their ends may come in any order)
NextSegments(sofar) ==
    { seg \in Segments : sofar = <<>> \/ seg.start >= sofar[Len(sofar)].start }

\* info.duration: <<>> is None, <<d>> is the float d
Durations == { <<>> } \cup { <<k * (SegUnit \div 2)>> : k \in 0..MaxTime }

FileNames == {"wav", "txt", "srt", "json"}

OutputNames == {"txt", "srt", "json"}

\* a file of this run: <<>> not written, <<content>> written
NoFile == <<>>

Max2(a, b) == IF a >= b THEN a ELSE b

\* ------------------------------------------------------------------ the pipeline
NoData == [detected_language |-> "", duration |-> <<>>, model |-> "",
           segments |-> <<>>]

PipeInit ==
    /\ pc = "check"
    /\ input_exists \in BOOLEAN
    /\ err = "none"
    /\ ffmpeg_runs = 0
    /\ model_loaded = FALSE
    /\ transcribe_calls = 0
    /\ yielded = <<>>
    /\ gen = "none"
    /\ info = [language |-> "", duration |-> <<>>]
    /\ segs = <<>>
    /\ total_duration = 0
    /\ last_t = 0
    /\ pbar = <<>>
    /\ files = [f \in FileNames |-> NoFile]
    /\ srt_lines = <<>>
    /\ data = NoData

Init ==
    /\ PipeInit
    /\ tIn = 0
    /\ tOut = <<>>

\* input_audio.exists() check: raise FileNotFoundError, or go on
CheckInput_NoCheck ==
    /\ pc = "check"
    /\ pc' = "convert"
    /\ UNCHANGED <<input_exists, err, ffmpeg_runs, model_loaded, transcribe_calls,
                   yielded, gen, info, segs, total_duration, last_t, pbar, files,
                   srt_lines, data, tIn, tOut>>

CheckInput ==
    /\ pc = "check"
    /\ IF ~input_exists
       THEN pc' = "failed" /\ err' = "FileNotFoundError"
       ELSE pc' = "convert" /\ err' = err
    /\ UNCHANGED <<input_exists, ffmpeg_runs, model_loaded, transcribe_calls,
                   yielded, gen, info, segs, total_duration, last_t, pbar, files,
                   srt_lines, data, tIn, tOut>>

\* to_wav_16k_mono: run ffmpeg (check=True); on a non-zero exit the wav may or
\* may not have been created
Convert ==
    /\ pc = "convert"
    /\ ffmpeg_runs' = ffmpeg_runs + 1
    /\ \E ok \in BOOLEAN, wrote \in BOOLEAN :
        IF ok
        THEN /\ files' = [files EXCEPT !["wav"] = <<"pcm_s16le">>]
             /\ pc' = "load"
             /\ err' = err
        ELSE /\ files' = [files EXCEPT !["wav"] =
                             IF wrote THEN <<"pcm_s16le">> ELSE NoFile]
             /\ pc' = "failed"
             /\ err' = "CalledProcessError"
    /\ UNCHANGED <<input_exists, model_loaded, transcribe_calls, yielded, gen, info,
                   segs, total_duration, last_t, pbar, srt_lines, data, tIn, tOut>>

\* WhisperModel(args.model, ...): returns the model or raises
LoadModel ==
    /\ pc = "load"
    /\ \E ok \in BOOLEAN :
        IF ok
        THEN model_loaded' = TRUE /\ pc' = "transcribe" /\ err' = err
        ELSE model_loaded' = FALSE /\ pc' = "failed" /\ err' = "ModelError"
    /\ UNCHANGED <<input_exists, ffmpeg_runs, transcribe_calls, yielded, gen, info,
                   segs, total_duration, last_t, pbar, files, srt_lines, data,
                   tIn, tOut>>

\* model.transcribe(...) returns (segments, info) or raises; then segs = [],
\* total_duration = float(info.duration) if info.duration else 0.0, last_t = 0.0
Transcribe ==
    /\ pc = "transcribe"
    /\ transcribe_calls' = transcribe_calls + 1
    /\ \E ok \in BOOLEAN, d \in Durations :
        IF ok
        THEN /\ info' = [language |-> "en", duration |-> d]
             /\ gen' = "live"
             /\ total_duration' = IF d # <<>> /\ d[1] # 0 THEN d[1] ELSE 0
             /\ pc' = "drain"
             /\ err' = err
        ELSE /\ info' = info
             /\ gen' = gen
             /\ total_duration' = total_duration
             /\ pc' = "failed"
             /\ err' = "ModelError"
    /\ segs' = <<>>
    /\ last_t' = 0
    /\ UNCHANGED <<input_exists, ffmpeg_runs, model_loaded, yielded, pbar, files,
                   srt_lines, data, tIn, tOut>>

\* new_t = max(last_t, float(seg.end))
new_t_NoClamp(last, seg) == seg.end

new_t_Accumulate(last, seg) == last + seg.end

new_t(last, seg) == Max2(last, seg.end)

\* the argument of pbar.update: max(0.0, new_t - last_t)
Increment(last, seg) == Max2(0, new_t(last, seg) - last)

\* one iteration of the loop under the progress bar (total_duration > 0)
BarIteration_DropsSilent ==
    /\ pc = "drain"
    /\ total_duration > 0
    /\ Len(yielded) < MaxLen
    /\ \E seg \in NextSegments(yielded) :
        /\ yielded' = Append(yielded, seg)
        /\ segs' = IF seg.end > last_t THEN Append(segs, seg) ELSE segs
        /\ pbar' = Append(pbar, Increment(last_t, seg))
        /\ last_t' = new_t(last_t, seg)
    /\ UNCHANGED <<pc, gen, input_exists, err, ffmpeg_runs, model_loaded,
                   transcribe_calls, info, total_duration, files, srt_lines,
                   data, tIn, tOut>>

BarIteration ==
    /\ pc = "drain"
    /\ total_duration > 0
    /\ Len(yielded) < MaxLen
    /\ \E seg \in NextSegments(yielded) :
        /\ yielded' = Append(yielded, seg)
        /\ segs' = Append(segs, seg)
        /\ pbar' = Append(pbar, Increment(last_t, seg))
        /\ last_t' = new_t(last_t, seg)
    /\ UNCHANGED <<pc, gen, input_exists, err, ffmpeg_runs, model_loaded,
                   transcribe_calls, info, total_duration, files, srt_lines,
                   data, tIn, tOut>>

\* one iteration of the loop without a progress bar
PlainIteration ==
    /\ pc = "drain"
    /\ ~(total_duration > 0)
    /\ Len(yielded) < MaxLen
    /\ \E seg \in NextSegments(yielded) :
        /\ yielded' = Append(yielded, seg)
        /\ segs' = Append(segs, seg)
    /\ UNCHANGED <<pc, gen, input_exists, err, ffmpeg_runs, model_loaded,
                   transcribe_calls, info, total_duration, last_t, pbar, files,
                   srt_lines, data, tIn, tOut>>

StreamEnd_EmptyIsError ==
    /\ pc = "drain"
    /\ pc' = IF segs = <<>> THEN "failed" ELSE "write_txt"
    /\ err' = IF segs = <<>> THEN "ValueError" ELSE err
    /\ gen' = "exhausted"
    /\ UNCHANGED <<input_exists, ffmpeg_runs, model_loaded, transcribe_calls,
                   yielded, info, segs, total_duration, last_t, pbar, files,
                   srt_lines, data, tIn, tOut>>

\* the generator is exhausted: either loop ends
StreamEnd ==
    /\ pc = "drain"
    /\ pc' = "write_txt"
    /\ gen' = "exhausted"
    /\ UNCHANGED <<input_exists, err, ffmpeg_runs, model_loaded, transcribe_calls,
                   yielded, info, segs, total_duration, last_t, pbar, files,
                   srt_lines, data, tIn, tOut>>

\* the generator raises while producing the next segment: the exception
\* leaves the loop and main()
StreamFail_Swallowed ==
    /\ pc = "drain"
    /\ pc' = "write_txt"
    /\ err' = "ModelError"
    /\ gen' = "raised"
    /\ UNCHANGED <<input_exists, ffmpeg_runs, model_loaded, transcribe_calls,
                   yielded, info, segs, total_duration, last_t, pbar, files,
                   srt_lines, data, tIn, tOut>>

StreamFail ==
    /\ pc = "drain"
    /\ pc' = "failed"
    /\ err' = "ModelError"
    /\ gen' = "raised"
    /\ UNCHANGED <<input_exists, ffmpeg_runs, model_loaded, transcribe_calls,
                   yielded, info, segs, total_duration, last_t, pbar, files,
                   srt_lines, data, tIn, tOut>>

\* [seg.text.strip() for seg in segs if seg.text and seg.text.strip()]
RECURSIVE TxtParts_KeepsBlank(_)
TxtParts_KeepsBlank(list) ==
    IF list = <<>> THEN <<>>
    ELSE (IF Truthy(list[1].text)
          THEN <<Strip(list[1].text)>> ELSE <<>>) \o TxtParts_KeepsBlank(Tail(list))

RECURSIVE TxtParts(_)
TxtParts(list) ==
    IF list = <<>> THEN <<>>
    ELSE (IF Truthy(list[1].text) /\ Truthy(Strip(list[1].text))
          THEN <<Strip(list[1].text)>> ELSE <<>>) \o TxtParts(Tail(list))

\* 4) text = "\n".join(...); out_txt.write_text(text)
WriteTxt ==
    /\ pc = "write_txt"
    /\ files' = [files EXCEPT !["txt"] = <<Join(<<NL>>, TxtParts(segs))>>]
    /\ pc' = "write_srt"
    /\ UNCHANGED <<input_exists, err, ffmpeg_runs, model_loaded, transcribe_calls,
                   yielded, gen, info, segs, total_duration, last_t, pbar, srt_lines,
                   data, tIn, tOut>>

\* the four srt_lines.append calls of the segment enumerated as i
SrtBlock(i, seg) ==
    << Str(i),
       format_srt_time(seg.start) \o <<" ", "-", "-", ">", " ">>
           \o format_srt_time(seg.end),
       Strip(seg.text),
       <<>> >>

\* for i, seg in enumerate(segs, start=1): ...
RECURSIVE SrtLinesFrom(_, _)
SrtLinesFrom(i, list) ==
    IF list = <<>> THEN <<>>
    ELSE SrtBlock(i, list[1]) \o SrtLinesFrom(i + 1, Tail(list))

\* 5) build srt_lines; out_srt.write_text("\n".join(srt_lines))
WriteSrt ==
    /\ pc = "write_srt"
    /\ srt_lines' = SrtLinesFrom(1, segs)
    /\ files' = [files EXCEPT !["srt"] = <<Join(<<NL>>, srt_lines')>>]
    /\ pc' = "write_json"
    /\ UNCHANGED <<input_exists, err, ffmpeg_runs, model_loaded, transcribe_calls,
                   yielded, gen, info, segs, total_duration, last_t, pbar, data,
                   tIn, tOut>>

\* [{"start": s.start, "end": s.end, "text": s.text.strip()} for s in segs]
JsonSegments_Reversed(list) ==
    [i \in 1..Len(list) |->
        [start |-> list[Len(list) + 1 - i].start,
         end |-> list[Len(list) + 1 - i].end,
         text |-> Strip(list[Len(list) + 1 - i].text)]]

JsonSegments(list) ==
    [i \in 1..Len(list) |->
        [start |-> list[i].start, end |-> list[i].end, text |-> Strip(list[i].text)]]

\* 6) build data; out_json.write_text(json.dumps(data, ...)).  The file's
\* content is kept as the dict itself: json.dumps is not modelled.
WriteJson ==
    /\ pc = "write_json"
    /\ data' = [detected_language |-> info.language,
                duration |-> info.duration,
                model |-> "small",
                segments |-> JsonSegments(segs)]
    /\ files' = [files EXCEPT !["json"] = <<data'>>]
    /\ pc' = "done"
    /\ UNCHANGED <<input_exists, err, ffmpeg_runs, model_loaded, transcribe_calls,
                   yielded, gen, info, segs, total_duration, last_t, pbar, srt_lines,
                   tIn, tOut>>

Next ==
    \/ CheckInput
    \/ Convert
    \/ LoadModel
    \/ Transcribe
    \/ BarIteration
    \/ PlainIteration
    \/ StreamEnd
    \/ StreamFail
    \/ WriteTxt
    \/ WriteSrt
    \/ WriteJson

Spec == Init /\ [][Next]_vars

\* ------------------------------------------------------------------ format_srt_time on its own
InitFmt ==
    /\ PipeInit
    /\ tIn \in FmtInputs
    /\ tOut = <<>>

Format ==
    /\ tOut = <<>>
    /\ tOut' = format_srt_time(tIn)
    /\ UNCHANGED <<tIn, pc, input_exists, err, ffmpeg_runs, model_loaded,
                   transcribe_calls, yielded, gen, info, segs, total_duration, last_t,
                   pbar, files, srt_lines, data>>

SpecFmt == InitFmt /\ [][Format]_vars

\* ================================================================== claims
\* str.splitlines() of a text whose only line break is "\n": the lines of a
\* file as its readers see them (a final "\n" ends the last line, it does
\* not start another one)
RECURSIVE SplitLines(_)
SplitLines(s) ==
    IF s = <<>> THEN <<>>
    ELSE IF \E i \in 1..Len(s) : s[i] = NL
         THEN LET i == CHOOSE k \in 1..Len(s) :
                         s[k] = NL /\ \A j \in 1..(k - 1) : s[j] # NL
              IN  <<SubSeq(s, 1, i - 1)>> \o SplitLines(SubSeq(s, i + 1, Len(s)))
         ELSE <<s>>

Abs(x) == IF x < 0 THEN -x ELSE x

\* the largest end among the segments of a list, 0 for none
RECURSIVE MaxEnd(_)
MaxEnd(list) == IF list = <<>> THEN 0
                ELSE Max2(list[Len(list)].end, MaxEnd(SubSeq(list, 1, Len(list) - 1)))

\* C1: for every t >= 0, format_srt_time(t) is 'HH:MM:SS,mmm': hours of at
\* least two digits (no further padding), two-digit minutes and seconds in
\* 0..59, three-digit milliseconds in 0..999, and the fields add up to the
\* integer nearest to t*1000 (ties to even), so a value that rounds up to a
\* whole second, minute or hour carries into the next field.
C1_FormatSrtTime ==
    tOut # <<>> =>
        LET n   == Len(tOut)
            hh  == SubSeq(tOut, 1, n - 10)
            mm  == SubSeq(tOut, n - 8, n - 7)
            ss  == SubSeq(tOut, n - 5, n - 4)
            mmm == SubSeq(tOut, n - 2, n)
            M   == ParseNat(hh) * 3600000 + ParseNat(mm) * 60000
                   + ParseNat(ss) * 1000 + ParseNat(mmm)
        IN  /\ n >= 12
            /\ tOut[n - 9] = ":" /\ tOut[n - 6] = ":" /\ tOut[n - 3] = ","
            /\ AllDigits(hh) /\ AllDigits(mm) /\ AllDigits(ss) /\ AllDigits(mmm)
            /\ (Len(hh) = 2 \/ hh[1] # "0")
            /\ ParseNat(mm) \in 0..59
            /\ ParseNat(ss) \in 0..59
            /\ ParseNat(mmm) \in 0..999
            /\ ParseNat(hh) = M \div 3600000
            /\ 2 * Abs(M * TicksPerMs - tIn) <= TicksPerMs
            /\ (2 * Abs(M * TicksPerMs - tIn) = TicksPerMs => M % 2 = 0)

\* a time just below one hour that rounds up to it: all three carries happen
C1_Witness ==
    /\ tIn < 3600000 * TicksPerMs
    /\ tOut = <<"0", "1", ":", "0", "0", ":", "0", "0", ",", "0", "0", "0">>

\* C2: under the progress bar, covered time starts at 0, after each segment
\* is max(previous, segment.end), never decreases whatever the order of the
\* end values, every increment given to the bar is >= 0, and covered never
\* exceeds the largest end observed.
C2_CoverageState ==
    (gen # "none" /\ total_duration > 0) =>
        /\ last_t = MaxEnd(segs)
        /\ Len(pbar) = Len(segs)
        /\ \A i \in 1..Len(pbar) :
            /\ pbar[i] >= 0
            /\ pbar[i] = MaxEnd(SubSeq(segs, 1, i)) - MaxEnd(SubSeq(segs, 1, i - 1))
        /\ (segs = <<>> => last_t = 0)
        /\ (segs # <<>> => \E i \in 1..Len(segs) : last_t <= segs[i].end)

C2_CoverageStep ==
    /\ last_t' >= last_t
    /\ (segs' # segs /\ total_duration > 0) =>
           last_t' = Max2(last_t, segs'[Len(segs')].end)

C2_Coverage == [](C2_CoverageState) /\ [][C2_CoverageStep]_vars

\* a later segment ends before an earlier one and coverage stays put
C2_Witness ==
    /\ total_duration > 0
    /\ Len(segs) = 2
    /\ segs[2].end < segs[1].end
    /\ last_t = segs[1].end
    /\ pbar[2] = 0

\* C3 (as claimed): with a known duration, coverage never exceeds the total
\* duration plus the length end - start of one segment.
C3_Original ==
    (gen # "none" /\ total_duration > 0) =>
        \/ last_t <= total_duration
        \/ \E i \in 1..Len(segs) :
               last_t <= total_duration + (segs[i].end - segs[i].start)

\* C3 (amended): the bound holds when every consumed segment starts no later
\* than the total duration.
C3_Overshoot ==
    (/\ gen # "none"
     /\ total_duration > 0
     /\ \A i \in 1..Len(segs) : segs[i].start <= total_duration) =>
        \/ last_t <= total_duration
        \/ \E i \in 1..Len(segs) :
               last_t <= total_duration + (segs[i].end - segs[i].start)

\* a segment that starts inside the audio and ends past its duration
C3_Witness ==
    /\ total_duration > 0
    /\ segs # <<>>
    /\ \A i \in 1..Len(segs) : segs[i].start <= total_duration
    /\ last_t > total_duration

\* C4: a failure of the model at load, at transcribe or while the stream is
\* drained ends the run with none of .txt/.srt/.json written; an output is
\* written only after the stream was drained to its end.
C4_NoExportOnModelError ==
    /\ err = "ModelError" =>
           /\ pc = "failed"
           /\ \A f \in OutputNames : files[f] = NoFile
    /\ (\E f \in OutputNames : files[f] # NoFile) =>
           /\ gen = "exhausted"
           /\ err = "none"
           /\ segs = yielded

\* the stream raised after a segment had been consumed
C4_Witness ==
    /\ err = "ModelError"
    /\ gen = "raised"
    /\ segs # <<>>

\* C5: with a missing input the run fails before the decoder is started and
\* before the model is loaded or invoked, and creates no file.
C5_MissingInput ==
    ~input_exists =>
        /\ pc \in {"check", "failed"}
        /\ (pc = "failed" => err = "FileNotFoundError")
        /\ ffmpeg_runs = 0
        /\ ~model_loaded
        /\ transcribe_calls = 0
        /\ gen = "none"
        /\ \A f \in FileNames : files[f] = NoFile

C5_Witness ==
    /\ ~input_exists
    /\ pc = "failed"
    /\ err = "FileNotFoundError"

\* the timing line '<start> --> <end>' of a segment
TimingLine(seg) ==
    format_srt_time(seg.start) \o <<" ", "-", "-", ">", " ">>
        \o format_srt_time(seg.end)

HasText(seg) == Strip(seg.text) # <<>>

\* the trimmed texts of the segments whose trimmed text is not empty
SpokenTexts(list) ==
    LET kept == SelectSeq(list, HasText)
    IN  [j \in 1..Len(kept) |-> Strip(kept[j].text)]

\* C6 (as claimed): the subtitle file holds, for the k-th segment, the four
\* lines k, timing, trimmed text and a blank line, for every block including
\* the last of the file.
C6_FourLineBlocks ==
    files["srt"] # NoFile =>
        LET lines == SplitLines(files["srt"][1])
        IN  /\ Len(lines) = 4 * Len(segs)
            /\ \A k \in 1..Len(segs) :
                /\ lines[4 * k - 3] = Str(k)
                /\ lines[4 * k - 2] = TimingLine(segs[k])
                /\ lines[4 * k - 1] = Strip(segs[k].text)
                /\ lines[4 * k] = <<>>

\* C7: the text file is the trimmed non-empty texts in recognition order,
\* one per line, joined by single newlines: no blank line, no leading or
\* trailing newline, as many lines as segments with non-empty trimmed text.
C7_TextOutput ==
    files["txt"] # NoFile =>
        LET text  == files["txt"][1]
            lines == SplitLines(text)
        IN  /\ lines = SpokenTexts(segs)
            /\ Len(lines) = Cardinality({k \in 1..Len(segs) : HasText(segs[k])})
            /\ \A j \in 1..Len(lines) : lines[j] # <<>>
            /\ \A i \in 1..Len(text) :
                   text[i] = NL => /\ i > 1 /\ i < Len(text)
                                   /\ text[i - 1] # NL /\ text[i + 1] # NL

\* a whitespace-only segment between the start and a spoken segment
C7_Witness ==
    /\ files["txt"] # NoFile
    /\ Len(segs) = 2
    /\ segs[1].text # <<>> /\ ~HasText(segs[1])
    /\ HasText(segs[2])
    /\ Len(segs[2].text) > Len(Strip(segs[2].text))

\* C8: a stream of zero segments, with the duration known or not, is not an
\* error: the run goes on to write an empty text file, an empty subtitle
\* file and structured data with an empty segment list.
C8_EmptyStream ==
    (gen = "exhausted" /\ yielded = <<>>) =>
        /\ err = "none"
        /\ pc \in {"write_txt", "write_srt", "write_json", "done"}
        /\ (pc \in {"write_srt", "write_json", "done"} => files["txt"] = << <<>> >>)
        /\ (pc \in {"write_json", "done"} =>
                files["srt"] = << <<>> >> /\ srt_lines = <<>>)
        /\ (pc = "done" =>
                /\ files["json"] = <<data>>
                /\ data.segments = <<>>
                /\ data.duration = info.duration)

C8_Witness ==
    /\ pc = "done"
    /\ yielded = <<>>
    /\ total_duration > 0
    /\ \A f \in OutputNames : files[f] # NoFile

\* C9: with the duration unknown or zero no progress is reported, and in
\* either branch the collected list is exactly the stream drained so far:
\* progress tracking adds, drops, reorders or alters nothing.
C9_SameCollection ==
    /\ segs = yielded
    /\ ~(total_duration > 0) => (pbar = <<>> /\ last_t = 0)
    /\ (gen # "none" /\ (info.duration = <<>> \/ info.duration = <<0>>)) =>
           ~(total_duration > 0)

C9_Witness ==
    /\ pc = "done"
    /\ info.duration = <<>>
    /\ Len(segs) >= 2
    /\ segs[2].end < segs[1].end

\* C10: the stream is drained once and its order kept in every output: one
\* subtitle block and one structured entry per segment, in order, also for
\* a segment whose trimmed text is empty; the text lines are the spoken
\* segments in order.
C10_OrderPreserved ==
    /\ transcribe_calls <= 1
    /\ (gen = "exhausted" => Len(segs) = Len(yielded))
    /\ pc = "done" =>
        LET srt == SplitLines(files["srt"][1])
            js  == files["json"][1].segments
        IN  /\ Len(srt_lines) = 4 * Len(yielded)
            /\ Len(srt) = IF yielded = <<>> THEN 0 ELSE 4 * Len(yielded) - 1
            /\ \A k \in 1..Len(yielded) :
                /\ srt[4 * k - 3] = Str(k)
                /\ srt[4 * k - 2] = TimingLine(yielded[k])
                /\ srt[4 * k - 1] = Strip(yielded[k].text)
            /\ Len(js) = Len(yielded)
            /\ \A k \in 1..Len(yielded) :
                js[k] = [start |-> yielded[k].start, end |-> yielded[k].end,
                         text |-> Strip(yielded[k].text)]
            /\ SplitLines(files["txt"][1]) = SpokenTexts(yielded)

\* two different segments, the first without spoken text
C10_Witness ==
    /\ pc = "done"
    /\ Len(yielded) = 2
    /\ ~HasText(yielded[1])
    /\ HasText(yielded[2])
    /\ yielded[1].end # yielded[2].end

====
